---- MODULE Spec2Model ----
(***************************************************************************)
(* Model of the RagFlow pipeline adapter                                   *)
(* (src/rag_flow_webapi_pipeline_cs.py, class Pipeline).                   *)
(*                                                                         *)
(* Text is modelled as a sequence of tokens.  Data that the code inspects  *)
(* character by character (answers, document names, error bodies) is a     *)
(* sequence of one-character strings; the literal pieces of the format     *)
(* strings of the code are single tokens.  Python's None is the string     *)
(* None below; the only other falsy value that occurs is the empty string. *)
(***************************************************************************)
EXTENDS Integers, Sequences, FiniteSets, TLC

VARIABLES
    sessionKV,    \* self.sessionKV : chat_id -> session id
    session_id,   \* self.session_id : one field of the adapter instance
    inletCall,    \* the last inlet invocation: its input, what it did, how it ended
    pending,      \* conversations whose inlet has returned and whose pipe is not yet called
    conv,         \* the conversation the current pipe generator was created for
    pc,           \* position of the current pipe generator
    request,      \* the completion request the generator has issued, if any
    full_answer,  \* pipe's local full_answer
    steps,        \* the lines aiter_lines has delivered so far, each with what the
                  \* loop body did for it
    response,     \* the status and error body the backend answered with, if any
    out,          \* the fragments the generator has yielded so far
    raised        \* TRUE when an exception left the generator

vars == <<sessionKV, session_id, inletCall, pending, conv, pc, request,
          response, full_answer, steps, out, raised>>

adapterVars == <<sessionKV, session_id, inletCall, pending>>
pipeVars == <<conv, pc, request, response, full_answer, steps, out, raised>>

----------------------------------------------------------------------------
(* Python values and text helpers *)

None == "None"

Falsy(v) == v = None \/ v = ""

RECURSIVE Flatten(_)
Flatten(ss) == IF ss = <<>> THEN <<>> ELSE Head(ss) \o Flatten(Tail(ss))

\* sub in s
Contains(s, sub) ==
    \E i \in 1..(Len(s) - Len(sub) + 1) : SubSeq(s, i, i + Len(sub) - 1) = sub

\* s.startswith(p)
StartsWith(s, p) == Len(s) >= Len(p) /\ SubSeq(s, 1, Len(p)) = p

\* s[n:]
From(s, n) == SubSeq(s, n + 1, Len(s))

RECURSIVE DecimalStr(_)
\* str(n) for n >= 0
DecimalStr(n) ==
    LET digit == <<"0", "1", "2", "3", "4", "5", "6", "7", "8", "9">>
    IN  IF n < 10 THEN <<digit[n + 1]>>
        ELSE DecimalStr(n \div 10) \o <<digit[(n % 10) + 1]>>

----------------------------------------------------------------------------
(* Configuration: Pipeline.Valves.  HOST and PORT are set by the host        *)
(* framework; one configured value of each is modelled.                     *)

HOST == <<"h">>
PORT == <<"8">>

debug == TRUE

----------------------------------------------------------------------------
(* inlet *)

ChatIds == {"c1", "c2"}
SessionIds == {"s1", "s2"}

\* The conversation of a body that carries no usable chat_id.
NoChat == "-"
Convs == ChatIds \cup {NoChat}

\* Envelopes the host framework hands to inlet: metadata missing, or a dict
\* whose chat_id is missing (None), empty, or an id.
Bodies ==
    {[metadata |-> "absent", chat_id |-> None]}
    \cup {[metadata |-> "dict", chat_id |-> c] : c \in {None, ""} \cup ChatIds}

\* What the backend can answer to POST .../sessions.
\*   transport : "error" when httpx.post raises (network error)
\*   status    : the HTTP status
\*   json      : the body is not JSON / is a JSON array / is a JSON object
\*   data      : the object's data member is missing / null / an object
\*   id        : data.id (None when missing)
SessionResponse(transport, status, json, data, id) ==
    [transport |-> transport, status |-> status, json |-> json,
     data |-> data, id |-> id]

NoResponse == SessionResponse("none", 0, "none", "none", None)

SessionResponses ==
    {SessionResponse("error", 0, "none", "none", None),
     SessionResponse("ok", 404, "object", "absent", None),
     SessionResponse("ok", 200, "malformed", "none", None),
     SessionResponse("ok", 200, "array", "none", None),
     SessionResponse("ok", 200, "object", "null", None),
     SessionResponse("ok", 200, "object", "absent", None),
     SessionResponse("ok", 200, "object", "dict", None),
     SessionResponse("ok", 200, "object", "dict", ""),
     SessionResponse("ok", 201, "object", "dict", "s1")}
    \cup {SessionResponse("ok", 200, "object", "dict", s) : s \in SessionIds}

\* Response.is_success, which raise_for_status tests.
IsSuccess(status) == 200 <= status /\ status <= 299

\* body.get('metadata', {}).get('chat_id')
ChatIdLookup(body) ==
    IF body.metadata = "absent" THEN None ELSE body.chat_id

ConvOf(body) ==
    IF Falsy(ChatIdLookup(body)) THEN NoChat ELSE ChatIdLookup(body)

\* Lines 70-74: httpx.post, raise_for_status, .json(), .get('data', {}).get('id').
\* raises: an exception reached the except clause.  id: the value assigned to
\* self.session_id when none did.
CreateSession(resp) ==
    CASE resp.transport = "error"  -> [raises |-> TRUE, id |-> None]
      [] ~IsSuccess(resp.status)   -> [raises |-> TRUE, id |-> None]
      [] resp.json = "malformed"   -> [raises |-> TRUE, id |-> None]
      [] resp.json = "array"       -> [raises |-> TRUE, id |-> None]
      [] resp.data = "null"        -> [raises |-> TRUE, id |-> None]
      [] resp.data = "absent"      -> [raises |-> FALSE, id |-> None]
      [] OTHER                     -> [raises |-> FALSE, id |-> resp.id]

\* Variant: the cache is never consulted.
CacheHitNever(kv, chat_id) == FALSE
\* chat_id in self.sessionKV
CacheHit(kv, chat_id) == chat_id \in DOMAIN kv

\* The whole of inlet on adapter state (kv, sid): the new state, the number of
\* session-creation requests issued, how the call ended and what it returned.
InletResult(kv, sid, body, resp) ==
    LET chat_id == ChatIdLookup(body)
        same(outcome) ==
            [sessionKV |-> kv, session_id |-> sid, posts |-> 0,
             outcome |-> outcome, ret |-> body]
    IN  IF ~debug THEN same("returned")
        ELSE IF Falsy(chat_id) THEN same("returned")
        ELSE IF CacheHit(kv, chat_id)
             THEN [sessionKV |-> kv, session_id |-> kv[chat_id], posts |-> 0,
                   outcome |-> "returned", ret |-> body]
        ELSE LET made == CreateSession(resp)
             IN  IF made.raises
                 THEN [sessionKV |-> kv, session_id |-> sid, posts |-> 1,
                       outcome |-> "raised", ret |-> body]
                 ELSE IF ~Falsy(made.id)
                 THEN [sessionKV |-> (chat_id :> made.id) @@ kv,
                       session_id |-> made.id, posts |-> 1,
                       outcome |-> "returned", ret |-> body]
                 ELSE [sessionKV |-> kv, session_id |-> made.id, posts |-> 1,
                       outcome |-> "returned", ret |-> body]

NoInletCall ==
    [body |-> [metadata |-> "none", chat_id |-> None], resp |-> NoResponse,
     posts |-> 0, outcome |-> "none", ret |-> [metadata |-> "none", chat_id |-> None],
     kvBefore |-> <<>>, sidBefore |-> None]

Inlet(body, resp) ==
    LET r == InletResult(sessionKV, session_id, body, resp)
    IN  /\ sessionKV' = r.sessionKV
        /\ session_id' = r.session_id
        /\ inletCall' = [body |-> body,
                         resp |-> IF r.posts = 0 THEN NoResponse ELSE resp,
                         posts |-> r.posts, outcome |-> r.outcome, ret |-> r.ret,
                         kvBefore |-> sessionKV, sidBefore |-> session_id]
        \* the host framework goes on to pipe only when inlet returned
        /\ pending' = IF r.outcome = "returned"
                      THEN pending \cup {ConvOf(body)} ELSE pending
        /\ UNCHANGED pipeVars

----------------------------------------------------------------------------
(* pipe: creation of the generator and its first step *)

Fragment(kind, text) == [kind |-> kind, text |-> text]

SessionNotInitialized ==
    Fragment("error",
        <<"Error: RAGFlow session not initialized. Please start a new chat or send a new message to create one.">>)

NoCompletionResponse == [status |-> 0, body |-> [read |-> "none", bytes |-> <<>>]]

NoRequest == [sent |-> FALSE, session_id |-> None, stream |-> FALSE, lang |-> ""]

\* question_data, lines 102-107 (the question itself plays no part here)
QuestionData(sid) ==
    [sent |-> TRUE, session_id |-> sid, stream |-> TRUE, lang |-> "Chinese"]

\* The host framework calls pipe(...) for a conversation whose inlet returned:
\* this creates the generator; none of its body has run yet.
PipeCall(c) ==
    /\ c \in pending
    /\ pending' = pending \ {c}
    /\ conv' = c
    /\ pc' = "start"
    /\ request' = NoRequest
    /\ response' = NoCompletionResponse
    /\ full_answer' = <<>>
    /\ steps' = <<>>
    /\ out' = <<>>
    /\ raised' = FALSE
    /\ UNCHANGED <<sessionKV, session_id, inletCall>>

\* Variant: self.session_id is None, which lets the empty id through.
SessionAbsentOnlyNone(sid) == sid = None
\* not self.session_id
SessionAbsent(sid) == Falsy(sid)

\* Lines 93-128: the guard on self.session_id, then the request is built and
\* client.stream(...) is entered.
PipeBegin ==
    /\ pc = "start"
    /\ IF SessionAbsent(session_id)
       THEN /\ out' = Append(out, SessionNotInitialized)
            /\ pc' = "done"
            /\ UNCHANGED request
       ELSE /\ request' = QuestionData(session_id)
            /\ pc' = "connecting"
            /\ UNCHANGED out
    /\ UNCHANGED <<conv, response, full_answer, steps, raised>>
    /\ UNCHANGED adapterVars

----------------------------------------------------------------------------
(* pipe: the response to the completion request *)

\* Statuses the backend answers the completion request with.
CompletionStatuses == {200, 201, 404}

\* Error bodies: whether aread() delivers the body, and its bytes.
ErrorBody(read, bytes) == [read |-> read, bytes |-> bytes]
ErrorBodies ==
    {ErrorBody("ok", <<110, 111>>), ErrorBody("ok", <<110, 255>>),
     ErrorBody("error", <<>>)}

\* bytes.decode(): UTF-8.  Bytes below 128 are one character each; the only
\* other byte modelled, 255, is valid nowhere in UTF-8.
Chr(b) == CASE b = 110 -> "n" [] b = 111 -> "o" [] OTHER -> "?"
Decode(bytes) ==
    IF \E i \in 1..Len(bytes) : bytes[i] >= 128
    THEN [raises |-> TRUE, text |-> <<>>]
    ELSE [raises |-> FALSE, text |-> [i \in 1..Len(bytes) |-> Chr(bytes[i])]]

\* repr(e) of the exceptions that can reach the last except clause: while
\* the request is made, and while the stream is read.
Exceptions == {"ConnectTimeout('')", "ReadTimeout('')"}
StreamExceptions == {"ReadError('')"}
UnicodeDecodeError == "UnicodeDecodeError(...)"

ConnectErrorFragment ==
    Fragment("error",
        <<"Error: Could not connect to RAGFlow service at ">> \o HOST \o <<":">> \o PORT)

UnexpectedErrorFragment(e) ==
    Fragment("error", <<"An unexpected error occurred: ", e>>)

StatusErrorFragment(status, text) ==
    Fragment("error",
        <<"Error from RAGFlow API: ">> \o DecimalStr(status) \o <<" - ">> \o text)

\* Lines 169-174: what the two except clauses of pipe do with an exception.
\* yields: the fragment yielded; raises: whether the exception goes on to the
\* caller.
OnException(e) ==
    IF e = "ConnectError"
    THEN [yields |-> ConnectErrorFragment, raises |-> FALSE]
    ELSE [yields |-> UnexpectedErrorFragment(e), raises |-> FALSE]

\* The generator ends in an except clause.
Fail(e) ==
    /\ out' = Append(out, OnException(e).yields)
    /\ raised' = OnException(e).raises
    /\ pc' = "done"

\* client.stream(...) cannot reach the host.
PipeConnectError ==
    /\ pc = "connecting"
    /\ Fail("ConnectError")
    /\ UNCHANGED <<conv, request, response, full_answer, steps>>
    /\ UNCHANGED adapterVars

\* client.stream(...) fails in another way (a timeout, a broken connection).
PipeRequestError(e) ==
    /\ pc = "connecting"
    /\ Fail(e)
    /\ UNCHANGED <<conv, request, response, full_answer, steps>>
    /\ UNCHANGED adapterVars

\* Variant: every 2xx status passes.
StatusOkAny2xx(status) == IsSuccess(status)
\* response.status_code != 200 is the error test of line 129.
StatusOk(status) == status = 200

\* Lines 129-132: a response whose status fails the test.
PipeErrorStatus(status, body) ==
    /\ pc = "connecting"
    /\ ~StatusOk(status)
    /\ IF body.read = "error" THEN Fail("ReadError('')")
       ELSE IF Decode(body.bytes).raises THEN Fail(UnicodeDecodeError)
       ELSE /\ out' = Append(out, StatusErrorFragment(status, Decode(body.bytes).text))
            /\ pc' = "done"
            /\ UNCHANGED raised
    /\ response' = [status |-> status, body |-> body]
    /\ UNCHANGED <<conv, request, full_answer, steps>>
    /\ UNCHANGED adapterVars

\* Lines 134-135: a response that passes the test; the stream is read next.
PipeStreamOpen(status) ==
    /\ pc = "connecting"
    /\ StatusOk(status)
    /\ pc' = "streaming"
    /\ response' = [status |-> status, body |-> [read |-> "none", bytes |-> <<>>]]
    /\ full_answer' = <<>>
    /\ UNCHANGED <<conv, request, steps, out, raised>>
    /\ UNCHANGED adapterVars

----------------------------------------------------------------------------
(* pipe: the event stream.  A line is a sequence of tokens: literal text   *)
(* ([lit |-> ...]) or the text of one JSON value ([json |-> value]).        *)

Lit(s) == [lit |-> s]
Json(j) == [json |-> j]

DataPrefix == Lit("data:")
Space == Lit(" ")
Done == Lit("[DONE]")

\* One entry of reference.chunks.  dict: the entry is a JSON object;
\* document_id: None when missing; has_name: document_name is present.
Chunk(id, hasName, name) ==
    [dict |-> TRUE, document_id |-> id, has_name |-> hasName, document_name |-> name]
ScalarChunk == [dict |-> FALSE, document_id |-> None, has_name |-> FALSE, document_name |-> <<>>]

\* A parsed JSON value, as far as pipe looks into it.
\*   top       : "object", or "number" for any value that is none
\*   data      : "absent" / "string" (any non-dict) / "dict"
\*   answer    : "absent" / "null" (any non-string) / "str", with its text
\*   reference : "absent" / "null" / "empty" ({}) / "dict" / "string"
\*   chunks    : "absent" / "null" / "list", with its list
Event(top, data, answer, text, reference, chunks, list) ==
    [top |-> top, data |-> data, answer |-> answer, text |-> text,
     reference |-> reference, chunks |-> chunks, list |-> list]

\* '* is running...'
RunningMarker ==
    <<"*", " ", "i", "s", " ", "r", "u", "n", "n", "i", "n", "g", ".", ".", ".">>

\* line[5:].strip(), on tokens: the prefix is one token, white space is Space.
RECURSIVE LStrip(_)
LStrip(s) == IF s # <<>> /\ Head(s) = Space THEN LStrip(Tail(s)) ELSE s
RECURSIVE RStrip(_)
RStrip(s) ==
    IF s # <<>> /\ s[Len(s)] = Space THEN RStrip(SubSeq(s, 1, Len(s) - 1)) ELSE s
Strip(s) == LStrip(RStrip(s))

\* json.loads succeeds on the text of exactly one JSON value.
IsJson(s) == Len(s) = 1 /\ DOMAIN s[1] = {"json"}

Upper == <<"A", "B", "C", "D", "E", "F", "G", "H", "I", "J", "K", "L", "M",
           "N", "O", "P", "Q", "R", "S", "T", "U", "V", "W", "X", "Y", "Z">>
Lower == <<"a", "b", "c", "d", "e", "f", "g", "h", "i", "j", "k", "l", "m",
           "n", "o", "p", "q", "r", "s", "t", "u", "v", "w", "x", "y", "z">>
LowerChar(c) ==
    IF \E i \in 1..Len(Upper) : Upper[i] = c
    THEN Lower[CHOOSE i \in 1..Len(Upper) : Upper[i] = c] ELSE c
\* s.lower()
ToLower(s) == [i \in 1..Len(s) |-> LowerChar(s[i])]

WhiteSpace == {" ", "\t"}
RECURSIVE LStripWs(_)
LStripWs(s) == IF s # <<>> /\ Head(s) \in WhiteSpace THEN LStripWs(Tail(s)) ELSE s
RECURSIVE RStripWs(_)
RStripWs(s) ==
    IF s # <<>> /\ s[Len(s)] \in WhiteSpace
    THEN RStripWs(SubSeq(s, 1, Len(s) - 1)) ELSE s
\* s.strip()
StripWs(s) == LStripWs(RStripWs(s))

\* s.split('.')[-1]
AfterLastDot(s) ==
    IF \E i \in 1..Len(s) : s[i] = "."
    THEN LET last == CHOOSE i \in 1..Len(s) :
                         s[i] = "." /\ \A j \in (i + 1)..Len(s) : s[j] # "."
         IN  From(s, last)
    ELSE s

\* Line 159
Ext(filename) ==
    IF Contains(filename, <<".">>)
    THEN ToLower(StripWs(AfterLastDot(filename))) ELSE <<>>

ReferenceHeader == <<"\n\n### References\n">>
Unknown == <<"U", "n", "k", "n", "o", "w", "n">>

\* Lines 158-161: the bullet of one chunk.
Bullet(chunk) ==
    LET filename == IF chunk.has_name THEN chunk.document_name ELSE Unknown
        ref_url == HOST \o <<":">> \o PORT \o <<"/document/", chunk.document_id, "?ext=">>
                   \o Ext(filename) \o <<"&prefix=document">>
    IN  <<"\n- [">> \o filename \o <<"](">> \o ref_url \o <<")">>

\* Variant: filesList is not consulted.
NewDocumentAlways(doc_id, filesList) == ~Falsy(doc_id)
\* if doc_id and doc_id not in filesList
NewDocument(doc_id, filesList) == ~Falsy(doc_id) /\ doc_id \notin filesList

\* Lines 155-162: the loop over the chunks.  raises: an entry that is no
\* object makes chunk.get raise.
RECURSIVE ReferenceLoop(_, _, _)
ReferenceLoop(chunks, filesList, referenceStr) ==
    IF chunks = <<>> THEN [raises |-> FALSE, referenceStr |-> referenceStr]
    ELSE LET chunk == Head(chunks)
         IN  IF ~chunk.dict THEN [raises |-> TRUE, referenceStr |-> referenceStr]
             ELSE IF NewDocument(chunk.document_id, filesList)
             THEN ReferenceLoop(Tail(chunks), filesList \cup {chunk.document_id},
                                referenceStr \o Bullet(chunk))
             ELSE ReferenceLoop(Tail(chunks), filesList, referenceStr)

\* if json_data['data'].get('reference')
HasReference(data) == data.reference \in {"dict", "string"}

\* Lines 152-163.  yields: the fragments yielded; raises: an exception went
\* to the except clause of the line.
ReferenceStep(data) ==
    IF ~HasReference(data) THEN [yields |-> <<>>, raises |-> FALSE]
    ELSE IF data.reference # "dict" THEN [yields |-> <<>>, raises |-> TRUE]
    ELSE IF data.chunks = "null" THEN [yields |-> <<>>, raises |-> TRUE]
    ELSE LET chunks == IF data.chunks = "absent" THEN <<>> ELSE data.list
             loop == ReferenceLoop(chunks, {}, ReferenceHeader)
         IN  IF loop.raises THEN [yields |-> <<>>, raises |-> TRUE]
             ELSE [yields |-> <<Fragment("references", loop.referenceStr)>>,
                   raises |-> FALSE]

\* Variant: no answer is taken for a progress message.
IsRunningNever(answer) == FALSE
\* '* is running...' in answer
IsRunning(answer) == Contains(answer, RunningMarker)

\* Variant: the whole answer is yielded again.
DeltaWhole(new_chunk, fa) == new_chunk
\* new_chunk[len(full_answer):]
Delta(new_chunk, fa) == From(new_chunk, Len(fa))

\* Lines 146-150.
AnswerStep(data, fa) ==
    IF data.answer = "absent" THEN [yields |-> <<>>, full_answer |-> fa, raises |-> FALSE]
    ELSE IF data.answer # "str" THEN [yields |-> <<>>, full_answer |-> fa, raises |-> TRUE]
    ELSE IF IsRunning(data.text) THEN [yields |-> <<>>, full_answer |-> fa, raises |-> FALSE]
    ELSE IF Len(data.text) > Len(fa)
         THEN [yields |-> <<Fragment("answer", Delta(data.text, fa))>>,
               full_answer |-> data.text, raises |-> FALSE]
    ELSE [yields |-> <<>>, full_answer |-> fa, raises |-> FALSE]

\* Variant: the except clauses of one line report the error to the caller.
OnLineExceptionReports(e) ==
    [yields |-> <<Fragment("error", <<"Error processing stream line: ", e>>)>>,
     ends |-> FALSE]
\* Lines 165-168: the except clauses of one line log and go on.
\* yields: what the clause yields; ends: whether it ends the loop.
OnLineException(e) == [yields |-> <<>>, ends |-> FALSE]

Continue(fa) == [yields |-> <<>>, full_answer |-> fa, ends |-> FALSE]

\* Lines 145-168 for one parsed value: what is yielded before the line ends,
\* normally or in the except clause of the line.
ProcessEvent(j, fa) ==
    IF j.top # "object"
    THEN [yields |-> OnLineException("TypeError").yields, full_answer |-> fa,
          ends |-> OnLineException("TypeError").ends]
    ELSE IF j.data # "dict" THEN Continue(fa)
    ELSE LET a == AnswerStep(j, fa)
             r == ReferenceStep(j)
         IN  IF a.raises
             THEN [yields |-> a.yields \o OnLineException("TypeError").yields,
                   full_answer |-> a.full_answer,
                   ends |-> OnLineException("TypeError").ends]
             ELSE IF r.raises
             THEN [yields |-> a.yields \o r.yields
                              \o OnLineException("AttributeError").yields,
                   full_answer |-> a.full_answer,
                   ends |-> OnLineException("AttributeError").ends]
             ELSE [yields |-> a.yields \o r.yields, full_answer |-> a.full_answer,
                   ends |-> FALSE]

\* if not json_data_str or json_data_str == '[DONE]': continue
SkippedPayload(s) == s = <<>> \/ s = <<Done>>

\* if line.startswith("data:")
IsDataLine(line) == StartsWith(line, <<DataPrefix>>)

\* Lines 137-168: one line of the stream.
ProcessLine(line, fa) ==
    IF ~IsDataLine(line) THEN Continue(fa)
    ELSE LET json_data_str == Strip(From(line, 1))
         IN  IF SkippedPayload(json_data_str) THEN Continue(fa)
             ELSE IF ~IsJson(json_data_str)
             THEN [yields |-> OnLineException("JSONDecodeError").yields,
                   full_answer |-> fa,
                   ends |-> OnLineException("JSONDecodeError").ends]
             ELSE ProcessEvent(json_data_str[1].json, fa)

\* async for line in response.aiter_lines(): the body of the loop for one line.
PipeLine(line) ==
    /\ pc = "streaming"
    /\ steps' = Append(steps, [line |-> line,
                                yields |-> ProcessLine(line, full_answer).yields,
                                full_answer |-> ProcessLine(line, full_answer).full_answer,
                                ends |-> ProcessLine(line, full_answer).ends])
    /\ out' = out \o ProcessLine(line, full_answer).yields
    /\ full_answer' = ProcessLine(line, full_answer).full_answer
    /\ pc' = IF ProcessLine(line, full_answer).ends THEN "closed" ELSE pc
    /\ UNCHANGED <<conv, request, response, raised>>
    /\ UNCHANGED adapterVars

\* aiter_lines raises while the stream is read.
PipeStreamError(e) ==
    /\ pc = "streaming"
    /\ Fail(e)
    /\ UNCHANGED <<conv, request, response, full_answer, steps>>
    /\ UNCHANGED adapterVars

\* The stream closes: the loop and the generator end.
PipeClose ==
    /\ pc = "streaming"
    /\ pc' = "closed"
    /\ UNCHANGED <<conv, request, response, full_answer, steps, out, raised>>
    /\ UNCHANGED adapterVars

----------------------------------------------------------------------------
(* Inputs *)

MaxLines == 3
MaxChunks == 3

BoundedSeq(S, n) == UNION {[1..k -> S] : k \in 0..n}

\* ' is running...'
IsRunningText == Tail(RunningMarker)

AnswerTexts ==
    {<<>>, <<"A">>, <<"A", "B">>, <<"A", "B", "C">>, <<"B">>,
     <<"A">> \o IsRunningText, <<"A">> \o RunningMarker}

PdfName == <<"a", ".", "p", "d", "f">>
OddName == <<"z", ".", "P", "D", "F", " ">>
BareName == <<"b">>
TarName == <<"c", ".", "t", "a", "r", ".", "G", "Z">>

ChunkValues ==
    {Chunk("d1", TRUE, PdfName), Chunk("d1", TRUE, OddName),
     Chunk("d2", TRUE, BareName), Chunk("d2", FALSE, <<>>),
     Chunk("d3", TRUE, OddName), Chunk("d3", TRUE, TarName),
     Chunk("", TRUE, PdfName), Chunk(None, TRUE, BareName), ScalarChunk}

AnswerEvent(text) == Event("object", "dict", "str", text, "absent", "absent", <<>>)
ReferenceEvent(reference, chunks, list) ==
    Event("object", "dict", "absent", <<>>, reference, chunks, list)

SpecExampleChunks ==
    <<Chunk("d1", TRUE, PdfName), Chunk("d1", TRUE, PdfName), Chunk("d2", TRUE, BareName)>>

\* Events that are no plain answer event.
OtherEvents ==
    {Event("number", "absent", "absent", <<>>, "absent", "absent", <<>>),
     Event("object", "dict", "null", <<>>, "absent", "absent", <<>>),
     ReferenceEvent("dict", "absent", <<>>),
     ReferenceEvent("dict", "list", SpecExampleChunks),
     Event("object", "dict", "str", <<"A", "B">>, "dict", "list", SpecExampleChunks),
     Event("object", "dict", "str", <<"A">>, "string", "absent", <<>>)}

\* Further shapes of the reference member.
OtherReferenceEvents ==
    {Event("object", "absent", "absent", <<>>, "absent", "absent", <<>>),
     Event("object", "string", "absent", <<>>, "absent", "absent", <<>>),
     ReferenceEvent("absent", "absent", <<>>),
     ReferenceEvent("empty", "absent", <<>>),
     ReferenceEvent("null", "absent", <<>>),
     ReferenceEvent("string", "absent", <<>>),
     ReferenceEvent("dict", "null", <<>>),
     Event("object", "dict", "null", <<>>, "dict", "list", SpecExampleChunks),
     Event("object", "dict", "str", RunningMarker, "dict", "list", SpecExampleChunks)}

EventLine(j) == <<DataPrefix, Space, Json(j)>>

StreamLines ==
    {EventLine(AnswerEvent(t)) : t \in AnswerTexts}
    \cup {EventLine(j) : j \in OtherEvents}
    \cup {<<>>,
          <<Lit("event: message")>>,
          <<Space, DataPrefix, Json(AnswerEvent(<<"A">>))>>,
          <<DataPrefix, Space>>,
          <<DataPrefix, Space, Done>>,
          <<DataPrefix, Space, Lit("{oops")>>}

ReferenceLines ==
    {EventLine(ReferenceEvent("dict", "list", list)) :
        list \in BoundedSeq(ChunkValues, MaxChunks)}
    \cup {EventLine(j) : j \in OtherEvents \cup OtherReferenceEvents}

----------------------------------------------------------------------------
(* Specifications *)

Init ==
    /\ sessionKV = <<>>
    /\ session_id = None
    /\ inletCall = NoInletCall
    /\ pending = {}
    /\ conv = NoChat
    /\ pc = "none"
    /\ request = NoRequest
    /\ response = NoCompletionResponse
    /\ full_answer = <<>>
    /\ steps = <<>>
    /\ out = <<>>
    /\ raised = FALSE

\* The adapter: inlet calls and pipe calls of several conversations, each
\* pipe followed up to the backend's answer to its completion request.
Next ==
    \/ \E body \in Bodies, resp \in SessionResponses : Inlet(body, resp)
    \/ \E c \in Convs : PipeCall(c)
    \/ PipeBegin
    \/ PipeConnectError
    \/ \E e \in Exceptions : PipeRequestError(e)
    \/ \E status \in CompletionStatuses, body \in ErrorBodies : PipeErrorStatus(status, body)
    \/ \E status \in CompletionStatuses : PipeStreamOpen(status)

Spec == Init /\ [][Next]_vars

\* One pipe call, from the generator's creation to its end, after the first
\* inlet of conversation c1 returned.
InitStream ==
    \E id \in {None, "", "s1"} :
        LET body == [metadata |-> "dict", chat_id |-> "c1"]
            resp == SessionResponse("ok", 200, "object", "dict", id)
            r == InletResult(<<>>, None, body, resp)
        IN  /\ sessionKV = r.sessionKV
            /\ session_id = r.session_id
            /\ inletCall = [body |-> body, resp |-> resp, posts |-> r.posts,
                            outcome |-> r.outcome, ret |-> r.ret,
                            kvBefore |-> <<>>, sidBefore |-> None]
            /\ pending = {}
            /\ conv = "c1"
            /\ pc = "start"
            /\ request = NoRequest
            /\ response = NoCompletionResponse
            /\ full_answer = <<>>
            /\ steps = <<>>
            /\ out = <<>>
            /\ raised = FALSE

PipeResponds ==
    \/ PipeBegin
    \/ PipeConnectError
    \/ \E e \in Exceptions : PipeRequestError(e)
    \/ \E status \in CompletionStatuses, body \in ErrorBodies : PipeErrorStatus(status, body)
    \/ \E status \in CompletionStatuses : PipeStreamOpen(status)

NextStream ==
    \/ PipeResponds
    \/ Len(steps) < MaxLines /\ \E line \in StreamLines : PipeLine(line)
    \/ \E e \in StreamExceptions : PipeStreamError(e)
    \/ PipeClose

SpecStream == InitStream /\ [][NextStream]_vars

\* One pipe call whose stream is a single reference event.
NextReferences ==
    \/ PipeBegin
    \/ \E status \in CompletionStatuses : PipeStreamOpen(status)
    \/ steps = <<>> /\ \E line \in ReferenceLines : PipeLine(line)
    \/ PipeClose

SpecReferences == InitStream /\ [][NextReferences]_vars

----------------------------------------------------------------------------
(* Properties of inlet and of the session cache *)

InletHappened == inletCall.outcome # "none"
InletChatId == ChatIdLookup(inletCall.body)

C1_CacheRule ==
    (InletHappened /\ ~Falsy(InletChatId)) =>
        IF InletChatId \in DOMAIN inletCall.kvBefore
        THEN /\ inletCall.posts = 0
             /\ inletCall.outcome = "returned"
             /\ session_id = inletCall.kvBefore[InletChatId]
        ELSE inletCall.posts = 1

C1_EntriesKept ==
    \A c \in DOMAIN sessionKV : c \in DOMAIN sessionKV' /\ sessionKV'[c] = sessionKV[c]

\* C1: an inlet call whose chat_id is not cached issues exactly one
\* session-creation request; one whose chat_id is cached issues none and takes
\* the cached session id; and no step of the adapter, a failed completion
\* request included, removes or changes an entry of the cache.
C1_SessionCache == [] C1_CacheRule /\ [][C1_EntriesKept]_vars

\* A cached chat_id was served from the cache, and a completion request failed
\* on a non-200 status, with the cache as it was.
C1_Witness ==
    /\ InletHappened
    /\ InletChatId \in DOMAIN inletCall.kvBefore
    /\ inletCall.posts = 0
    /\ pc = "done" /\ response.status = 404
    /\ sessionKV = inletCall.kvBefore

\* C2: the session id in the completion request of a conversation is the one
\* cached for that conversation's chat_id.
C2_OwnSession ==
    (conv \in ChatIds /\ conv \in DOMAIN sessionKV /\ request.sent) =>
        request.session_id = sessionKV[conv]

\* The failure kinds of session creation: network error, non-2xx status,
\* malformed body, no data.id.
NetworkError(resp) == resp.transport = "error"
Non2xx(resp) == resp.transport = "ok" /\ ~IsSuccess(resp.status)
MalformedBody(resp) ==
    resp.transport = "ok" /\ IsSuccess(resp.status) /\ resp.json \in {"malformed", "array"}
NoDataId(resp) ==
    /\ resp.transport = "ok" /\ IsSuccess(resp.status) /\ resp.json = "object"
    /\ resp.data \in {"absent", "null"} \/ (resp.data = "dict" /\ resp.id = None)
CreationFailed(resp) ==
    NetworkError(resp) \/ Non2xx(resp) \/ MalformedBody(resp) \/ NoDataId(resp)

\* C4: when session creation fails (network error, non-2xx status, malformed
\* body, no data.id), inlet raises, issues no second request and leaves the
\* cache unchanged.
C4_FailureRaised ==
    (InletHappened /\ inletCall.posts > 0 /\ CreationFailed(inletCall.resp)) =>
        /\ inletCall.outcome = "raised"
        /\ inletCall.posts = 1
        /\ sessionKV = inletCall.kvBefore

\* C6: an inlet call without chat_id issues no request, leaves the cache
\* unchanged and returns the envelope unchanged; the pipe call of such a turn
\* has no session id to use, so it sends no completion request.
C6_NoChatIdNoSession ==
    /\ (InletHappened /\ Falsy(InletChatId)) =>
           /\ inletCall.posts = 0
           /\ sessionKV = inletCall.kvBefore
           /\ inletCall.outcome = "returned"
           /\ inletCall.ret = inletCall.body
    /\ (InletHappened /\ Falsy(InletChatId) /\ conv = NoChat
            /\ pc \notin {"none", "start"}) => ~request.sent

----------------------------------------------------------------------------
(* Properties of one pipe call *)

AnswerFragments(frags) == SelectSeq(frags, LAMBDA f : f.kind = "answer")
ReferenceFragments(frags) == SelectSeq(frags, LAMBDA f : f.kind = "references")
ErrorFragments(frags) == SelectSeq(frags, LAMBDA f : f.kind = "error")
TextOf(frags) == Flatten([i \in 1..Len(frags) |-> frags[i].text])

\* The accumulator before step i.
Before(i) == IF i = 1 THEN <<>> ELSE steps[i - 1].full_answer

Payload(line) == Strip(From(line, 1))
IsEventLine(line) == line # <<>> /\ Head(line) = DataPrefix /\ IsJson(Payload(line))
LineEvent(line) == Payload(line)[1].json

\* C9: with the session id absent (None or empty) when pipe runs, the sequence
\* is the one "session not initialized" fragment and ends; no completion
\* request is sent, no response is read and nothing is raised.
C9_SessionNotInitialized ==
    (pc # "start" /\ Falsy(session_id)) =>
        /\ out = <<SessionNotInitialized>>
        /\ pc = "done"
        /\ ~request.sent
        /\ response = NoCompletionResponse
        /\ steps = <<>>
        /\ ~raised

\* pipe ran with an empty session id and ended on the error fragment.
C9_Witness ==
    /\ session_id = ""
    /\ pc = "done"
    /\ out = <<SessionNotInitialized>>

\* The stream of a response was read: the generator is in the loop, has left
\* it at the stream's close, or left it on an exception of the stream.
ReadAsStream ==
    \/ pc \in {"streaming", "closed"}
    \/ /\ pc = "done" /\ out # <<>>
       /\ out[Len(out)] \in {UnexpectedErrorFragment(e) : e \in StreamExceptions}

FailureEndsInOneError ==
    (pc = "done" /\ request.sent) =>
        /\ Len(ErrorFragments(out)) = 1
        /\ out[Len(out)].kind = "error"

BodyDecodes == response.body.read = "ok" /\ ~Decode(response.body.bytes).raises

\* C10 as claimed: pipe never raises; a failed completion request ends the
\* sequence with exactly one error fragment; a non-2xx response yields exactly
\* one fragment, with the status code and the raw body when the body can be
\* read and decoded; a 2xx response is read as an event stream.
C10_Original ==
    /\ ~raised
    /\ FailureEndsInOneError
    /\ (response.status # 0 /\ ~IsSuccess(response.status)) =>
           /\ pc = "done" /\ Len(out) = 1 /\ out[1].kind = "error"
           /\ BodyDecodes =>
                  /\ Contains(out[1].text, DecimalStr(response.status))
                  /\ Contains(out[1].text, Decode(response.body.bytes).text)
    /\ (response.status # 0 /\ IsSuccess(response.status)) => ReadAsStream

\* C10, amended: pipe never raises; a failed completion request ends the
\* sequence with exactly one error fragment; a response whose status is not
\* 200 (another 2xx included) yields exactly one fragment, with the status code
\* and the decoded body when the body can be read and decoded, and the
\* "unexpected error" fragment otherwise; a 200 response is read as an event
\* stream.
C10_Amended ==
    /\ ~raised
    /\ FailureEndsInOneError
    /\ response.status \notin {0, 200} =>
           /\ pc = "done" /\ Len(out) = 1 /\ out[1].kind = "error"
           /\ AnswerFragments(out) = <<>> /\ ReferenceFragments(out) = <<>>
           /\ IF BodyDecodes
              THEN /\ Contains(out[1].text, DecimalStr(response.status))
                   /\ Contains(out[1].text, Decode(response.body.bytes).text)
              ELSE out[1].text[1] = "An unexpected error occurred: "
    /\ response.status = 200 => ReadAsStream

\* A 201 response ended the sequence on the one status fragment.
C10_Witness ==
    /\ response.status = 201 /\ BodyDecodes
    /\ pc = "done"
    /\ out = <<Fragment("error",
                 <<"Error from RAGFlow API: ", "2", "0", "1", " - ", "n", "o">>)>>

----------------------------------------------------------------------------
(* Properties of the answer events *)

IsAnswerLine(line) == \E t \in AnswerTexts : line = EventLine(AnswerEvent(t))
AnswerOf(line) == line[3].json.text

\* Every line so far is an answer event whose answer extends the previous one.
Cumulative ==
    /\ steps # <<>>
    /\ \A i \in DOMAIN steps : IsAnswerLine(steps[i].line)
    /\ \A i \in DOMAIN steps :
           i > 1 => StartsWith(AnswerOf(steps[i].line), AnswerOf(steps[i - 1].line))

\* Each event yields the suffix beyond the previous answer (nothing when that
\* is empty) and sets the accumulator; the answer fragments add up to the
\* latest answer.
SuffixDeltas ==
    /\ \A i \in DOMAIN steps :
           LET prev == IF i = 1 THEN <<>> ELSE AnswerOf(steps[i - 1].line)
               suffix == From(AnswerOf(steps[i].line), Len(prev))
           IN  /\ steps[i].yields =
                      IF suffix = <<>> THEN <<>> ELSE <<Fragment("answer", suffix)>>
               /\ steps[i].full_answer = AnswerOf(steps[i].line)
    /\ TextOf(AnswerFragments(out)) = AnswerOf(steps[Len(steps)].line)
    /\ full_answer = AnswerOf(steps[Len(steps)].line)

\* C3 as claimed: for any stream of answer events whose answers each extend
\* the previous one, every event yields exactly the new suffix and the
\* fragments add up to the latest answer.
C3_Original == Cumulative => SuffixDeltas

\* C3, amended: the same, for streams none of whose answers contains
\* '* is running...'.
C3_Amended ==
    (Cumulative /\ \A i \in DOMAIN steps : ~Contains(AnswerOf(steps[i].line), RunningMarker))
        => SuffixDeltas

\* The answers "A", "AB", "ABC" came out as "A", "B", "C".
C3_Witness ==
    /\ Len(steps) = 3
    /\ [i \in 1..3 |-> steps[i].line] =
           <<EventLine(AnswerEvent(<<"A">>)), EventLine(AnswerEvent(<<"A", "B">>)),
             EventLine(AnswerEvent(<<"A", "B", "C">>))>>
    /\ out = <<Fragment("answer", <<"A">>), Fragment("answer", <<"B">>),
               Fragment("answer", <<"C">>)>>

AnswerContains(line, marker) ==
    /\ IsEventLine(line)
    /\ LineEvent(line).top = "object" /\ LineEvent(line).data = "dict"
    /\ LineEvent(line).answer = "str"
    /\ Contains(LineEvent(line).text, marker)

Suppressed(marker) ==
    \A i \in DOMAIN steps :
        AnswerContains(steps[i].line, marker) =>
            /\ AnswerFragments(steps[i].yields) = <<>>
            /\ steps[i].full_answer = Before(i)

\* C5 as claimed: an event whose answer contains ' is running...' yields no
\* text fragment and leaves the accumulator unchanged.
C5_Original == Suppressed(IsRunningText)

\* C5, amended: an event whose answer contains '* is running...' yields no
\* text fragment and leaves the accumulator unchanged.
C5_Amended == Suppressed(RunningMarker)

\* After "A" was emitted, 'A* is running...' came and changed nothing.
C5_Witness ==
    /\ Len(steps) = 2
    /\ steps[1].line = EventLine(AnswerEvent(<<"A">>))
    /\ steps[2].line = EventLine(AnswerEvent(<<"A">> \o RunningMarker))
    /\ out = <<Fragment("answer", <<"A">>)>>
    /\ full_answer = <<"A">>

----------------------------------------------------------------------------
(* Properties of the lines that carry no event *)

\* A blank line, a line without the data: prefix, an empty payload, the
\* [DONE] sentinel, a payload that is no JSON value.
IsNoise(line) ==
    \/ line = <<>>
    \/ Head(line) # DataPrefix
    \/ Payload(line) = <<>>
    \/ Payload(line) = <<Done>>
    \/ ~IsJson(Payload(line))

RECURSIVE Run(_, _)
\* The fragments of a stream of lines, from accumulator fa.
Run(lines, fa) ==
    IF lines = <<>> THEN <<>>
    ELSE LET r == ProcessLine(Head(lines), fa)
         IN  r.yields \o Run(Tail(lines), r.full_answer)

LinesRead == [i \in 1..Len(steps) |-> steps[i].line]
WithoutNoise == SelectSeq(LinesRead, LAMBDA l : ~IsNoise(l))

\* C8: a blank line, a line without data:, an empty payload, [DONE] and
\* malformed JSON yield nothing, leave the accumulator unchanged and do not end
\* the loop; what the stream yields is what it yields without those lines.
C8_NoiseSkipped ==
    /\ \A i \in DOMAIN steps :
           IsNoise(steps[i].line) =>
               /\ steps[i].yields = <<>>
               /\ steps[i].full_answer = Before(i)
               /\ ~steps[i].ends
    /\ response.status = 200 =>
           \/ out = Run(WithoutNoise, <<>>)
           \/ /\ pc = "done"
              /\ \E e \in StreamExceptions :
                     out = Append(Run(WithoutNoise, <<>>), UnexpectedErrorFragment(e))

\* Malformed JSON, then [DONE], then the answer "A", which was emitted.
C8_Witness ==
    /\ Len(steps) = 3
    /\ steps[1].line = <<DataPrefix, Space, Lit("{oops")>>
    /\ steps[2].line = <<DataPrefix, Space, Done>>
    /\ steps[3].line = EventLine(AnswerEvent(<<"A">>))
    /\ pc = "streaming"
    /\ out = <<Fragment("answer", <<"A">>)>>

----------------------------------------------------------------------------
(* Properties of the reference events *)

\* The entries of list at the indices in idx, in the order of the list.
RECURSIVE Pick(_, _, _)
Pick(list, idx, i) ==
    IF i > Len(list) THEN <<>>
    ELSE (IF i \in idx THEN <<list[i]>> ELSE <<>>) \o Pick(list, idx, i + 1)

NameOf(chunk) == IF chunk.has_name THEN chunk.document_name ELSE Unknown

HasDot(name) == \E i \in 1..Len(name) : name[i] = "."
LastDot(name) ==
    CHOOSE k \in 1..Len(name) : name[k] = "." /\ \A j \in (k + 1)..Len(name) : name[j] # "."

\* The lowercased text after the last '.', or nothing without a '.'.
LoweredSuffix(name) ==
    IF HasDot(name)
    THEN [i \in 1..(Len(name) - LastDot(name)) |-> LowerChar(name[LastDot(name) + i])]
    ELSE <<>>

\* s without the white space at its two ends.
Trimmed(s) ==
    LET solid == {i \in 1..Len(s) : s[i] \notin WhiteSpace}
    IN  IF solid = {} THEN <<>>
        ELSE SubSeq(s, CHOOSE a \in solid : \A x \in solid : a <= x,
                       CHOOSE b \in solid : \A x \in solid : x <= b)

BulletWith(chunk, ext) ==
    <<"\n- [">> \o NameOf(chunk)
    \o <<"](">> \o HOST \o <<":">> \o PORT \o <<"/document/", chunk.document_id, "?ext=">>
    \o ext \o <<"&prefix=document", ")">>

\* The first occurrences of the document ids of a list of chunks; a missing or
\* empty document_id is none.
FirstOfEachId(list) ==
    {i \in 1..Len(list) :
        /\ list[i].dict /\ list[i].document_id \notin {None, ""}
        /\ \A j \in 1..(i - 1) : list[j].document_id # list[i].document_id}

ClaimedReferences(list) ==
    LET firsts == Pick(list, FirstOfEachId(list), 1)
    IN  ReferenceHeader
        \o Flatten([i \in 1..Len(firsts) |->
                       BulletWith(firsts[i], LoweredSuffix(NameOf(firsts[i])))])

ActualReferences(list) ==
    LET firsts == Pick(list, FirstOfEachId(list), 1)
    IN  ReferenceHeader
        \o Flatten([i \in 1..Len(firsts) |->
                       BulletWith(firsts[i], Trimmed(LoweredSuffix(NameOf(firsts[i]))))])

InData(j) == j.top = "object" /\ j.data = "dict"
ChunksPresent(j) == InData(j) /\ j.reference = "dict" /\ j.chunks = "list"

\* The answer, if any, is a string and every chunk is an object.
WellFormed(j) == j.answer \in {"absent", "str"} /\ \A k \in 1..Len(j.list) : j.list[k].dict

\* C7 as claimed: an event with reference.chunks yields exactly one references
\* fragment, the header and one bullet per distinct document_id in order of
\* first occurrence, with the lowercased text after the last '.' of the name as
\* extension; an event without reference.chunks yields none.  (Events whose
\* answer is no string or whose chunks are no objects are left out.)
C7_Original ==
    \A i \in DOMAIN steps :
        IF IsEventLine(steps[i].line) /\ ChunksPresent(LineEvent(steps[i].line))
        THEN WellFormed(LineEvent(steps[i].line)) =>
                 ReferenceFragments(steps[i].yields) =
                     <<Fragment("references",
                           ClaimedReferences(LineEvent(steps[i].line).list))>>
        ELSE ReferenceFragments(steps[i].yields) = <<>>

\* The events whose reference step runs to its end: the answer, if any, is a
\* string; reference is a non-empty object; chunks, if any, is a list of objects.
ReferenceListed(j) ==
    /\ InData(j)
    /\ j.answer \in {"absent", "str"}
    /\ j.reference = "dict"
    /\ j.chunks \in {"absent", "list"}
    /\ \A k \in 1..Len(j.list) : j.list[k].dict

\* C7, amended: an event whose data.reference is a non-empty object (its
\* answer, if any, a string and its chunks, if any, a list of objects) yields
\* exactly one references fragment: the header and one bullet per distinct
\* non-empty document_id of the chunks, none without chunks, in order of first
\* occurrence with the first occurrence's name ('Unknown' without one), the
\* extension being the lowercased text after the last '.' of the name without
\* the white space around it, or empty without a '.'.  Every other event or
\* line yields no references fragment.
C7_Amended ==
    \A i \in DOMAIN steps :
        IF IsEventLine(steps[i].line) /\ ReferenceListed(LineEvent(steps[i].line))
        THEN ReferenceFragments(steps[i].yields) =
                 <<Fragment("references",
                       ActualReferences(
                           IF LineEvent(steps[i].line).chunks = "list"
                           THEN LineEvent(steps[i].line).list ELSE <<>>))>>
        ELSE ReferenceFragments(steps[i].yields) = <<>>

\* The chunks (d1, a.pdf), (d1, a.pdf), (d2, b) came out as two bullets, the
\* second with an empty extension.
C7_Witness ==
    /\ Len(steps) = 1
    /\ steps[1].line = EventLine(ReferenceEvent("dict", "list", SpecExampleChunks))
    /\ out = <<Fragment("references",
                 <<"\n\n### References\n",
                   "\n- [", "a", ".", "p", "d", "f", "](", "h", ":", "8", "/document/",
                   "d1", "?ext=", "p", "d", "f", "&prefix=document", ")",
                   "\n- [", "b", "](", "h", ":", "8", "/document/",
                   "d2", "?ext=", "&prefix=document", ")">>)>>

====
